---- MODULE Spec2Model ----
(***************************************************************************)
(* The request handlers of main.py (a FastAPI proxy in front of the        *)
(* Spotify Web API) as a state machine.  Every worker of the hosting       *)
(* runtime serves one request at a time; a handler blocks at each outbound *)
(* HTTP call, so one action is one outbound call together with all the     *)
(* code that runs on its response up to the next call or the return.       *)
(* JSON objects are records, JSON arrays are sequences, a Python exception *)
(* is a record [exc, msg], and a value that is not an exception is wrapped *)
(* as [val |-> v].                                                         *)
(***************************************************************************)
EXTENDS Integers, Sequences, FiniteSets, TLC

VARIABLES pc, handler, appid, token, calls, received, result

vars == <<pc, handler, appid, token, calls, received, result>>

(* Bounds of the model *)
MaxItems == 2

Workers == {"w1", "w2"}

(* ---------------------------------------------------------------------- *)
(* Module-level constants of main.py                                       *)
(* ---------------------------------------------------------------------- *)
TOKEN_ENDPOINT == "https://accounts.spotify.com/api/token"
NOW_PLAYING_ENDPOINT == "https://api.spotify.com/v1/me/player/currently-playing"
RECENTLY_PLAYED_ENDPOINT == "https://api.spotify.com/v1/me/player/recently-played"
TOP_TRACKS_ENDPOINT == "https://api.spotify.com/v1/me/top/tracks"
TOP_ARTISTS_ENDPOINT == "https://api.spotify.com/v1/me/top/artists"
STEAM_ENDPOINT == "https://store.steampowered.com/api/appdetails"
PLACEHOLDER_URL == "https://placehold.co/64x64/0b0c1a/ffffff?text=?"

SpotifyHandlers == {"get_now_playing", "get_top_tracks", "get_top_artists"}

(* ---------------------------------------------------------------------- *)
(* Python values and exceptions                                            *)
(* ---------------------------------------------------------------------- *)
EmptyObj == [k \in {} |-> 0]
Null == [null |-> TRUE]

Has(obj, key) == key \in DOMAIN obj
Val(v) == [val |-> v]
Raise(cls, msg) == [exc |-> cls, msg |-> msg]
IsExc(v) == Has(v, "exc")
KeyError(key) == Raise("KeyError", "'" \o key \o "'")
IndexError == Raise("IndexError", "list index out of range")

\* `not v` for a JSON object or null
Falsy(v) == v = EmptyObj \/ v = Null

\* ", ".join(names)
RECURSIVE Join(_)
Join(names) ==
  IF names = <<>> THEN ""
  ELSE IF Len(names) = 1 THEN names[1]
  ELSE names[1] \o ", " \o Join(Tail(names))

\* requests.exceptions.RequestException and its subclasses
IsRequestException(cls) == cls \in {"ConnectionError", "HTTPError"}

\* response.raise_for_status(): raises HTTPError on a 4xx or 5xx status
RaiseForStatus(resp) ==
  IF resp.status >= 400
  THEN Raise("HTTPError", ToString(resp.status) \o
             (IF resp.status < 500 THEN " Client Error" ELSE " Server Error"))
  ELSE Val(resp)

(* ---------------------------------------------------------------------- *)
(* What the upstream services may answer                                   *)
(* ---------------------------------------------------------------------- *)
ConnectionFailure == Raise("ConnectionError", "connection failed")
Unauthorized == [status |-> 401, body |-> [error |-> "unauthorized"]]

Tokens == {"tokA", "tokB"}

TokenResponses ==
  {ConnectionFailure,
   [status |-> 400, body |-> [error |-> "invalid_grant"]],
   [status |-> 200, body |-> [token_type |-> "Bearer"]]}
  \cup {[status |-> 200, body |-> [access_token |-> t]] : t \in Tokens}

Images(n) == [i \in 1..n |-> [url |-> "img" \o ToString(i - 1)]]
ArtistRefs(names) == [i \in 1..Len(names) |-> [name |-> names[i]]]

Track(name, names, n) ==
  [name |-> name,
   artists |-> ArtistRefs(names),
   album |-> [name |-> "album of " \o name, images |-> Images(n)],
   external_urls |-> [spotify |-> "https://open.spotify.com/track/" \o name]]

Tracks ==
  {Track("s1", <<"A">>, 3), Track("s2", <<"A", "B">>, 1),
   Track("s3", <<"B">>, 0), Track("s4", <<"B", "A">>, 2)}

Artist(name, n) ==
  [name |-> name,
   images |-> Images(n),
   external_urls |-> [spotify |-> "https://open.spotify.com/artist/" \o name]]

Artists == {Artist("A", 0), Artist("B", 1), Artist("C", 2), Artist("D", 3)}

SeqsUpTo(S, n) == UNION {[1..k -> S] : k \in 0..n}

NowPlayingResponses ==
  {ConnectionFailure, Unauthorized,
   [status |-> 204, body |-> EmptyObj],
   [status |-> 200, body |-> EmptyObj],
   [status |-> 200, body |-> Null],
   [status |-> 200, body |-> [is_playing |-> TRUE]],
   [status |-> 200, body |-> [is_playing |-> TRUE, item |-> Null]]}
  \cup {[status |-> 200, body |-> [is_playing |-> p, item |-> t]] :
          p \in BOOLEAN, t \in Tracks}

RecentlyPlayedResponses ==
  {ConnectionFailure, Unauthorized, [status |-> 200, body |-> EmptyObj]}
  \cup {[status |-> 200,
         body |-> [items |-> [i \in DOMAIN ts |-> [track |-> ts[i]]]]] :
          ts \in SeqsUpTo(Tracks, MaxItems)}

TopTracksResponses ==
  {ConnectionFailure, Unauthorized, [status |-> 200, body |-> EmptyObj]}
  \cup {[status |-> 200, body |-> [items |-> ts]] : ts \in SeqsUpTo(Tracks, MaxItems)}

TopArtistsResponses ==
  {ConnectionFailure, Unauthorized, [status |-> 200, body |-> EmptyObj]}
  \cup {[status |-> 200, body |-> [items |-> as]] : as \in SeqsUpTo(Artists, MaxItems)}

(* ---------------------------------------------------------------------- *)
(* get_access_token                                                        *)
(* ---------------------------------------------------------------------- *)
AccessToken(resp) ==
  IF IsExc(resp) THEN resp
  ELSE IF IsExc(RaiseForStatus(resp)) THEN RaiseForStatus(resp)
  ELSE IF ~Has(resp.body, "access_token") THEN KeyError("access_token")
  ELSE Val(resp.body.access_token)

Bearer(w) == "Bearer " \o token[w]

(* ---------------------------------------------------------------------- *)
(* The try/except of the three Spotify handlers                            *)
(* ---------------------------------------------------------------------- *)
HttpOK(body) == [status |-> 200, body |-> body]

Catch(e) ==
  IF IsRequestException(e.exc)
  THEN [error |-> "Could not connect to Spotify API: " \o e.msg]
  ELSE [error |-> "An unexpected error occurred: " \o e.msg]

\* Handle with the second except clause left out: what is not a
\* RequestException leaves the handler and the framework answers 500
HandleRequestOnly(outcome) ==
  IF ~IsExc(outcome) THEN HttpOK(outcome.val)
  ELSE IF IsRequestException(outcome.exc) THEN HttpOK(Catch(outcome))
  ELSE [status |-> 500, body |-> [detail |-> "Internal Server Error"]]

Handle(outcome) ==
  IF IsExc(outcome) THEN HttpOK(Catch(outcome)) ELSE HttpOK(outcome.val)

(* ---------------------------------------------------------------------- *)
(* get_now_playing                                                         *)
(* ---------------------------------------------------------------------- *)
NoData == [isPlaying |-> FALSE, hasData |-> FALSE]

\* TrackInfo that leaves albumImageUrl out when the album has no image
TrackInfoLenient(track, playing) ==
  IF track.album.images = <<>>
  THEN Val([isPlaying |-> playing,
            hasData |-> TRUE,
            title |-> track.name,
            artist |-> Join([i \in DOMAIN track.artists |-> track.artists[i].name]),
            album |-> track.album.name,
            songUrl |-> track.external_urls.spotify])
  ELSE Val([isPlaying |-> playing,
            hasData |-> TRUE,
            title |-> track.name,
            artist |-> Join([i \in DOMAIN track.artists |-> track.artists[i].name]),
            album |-> track.album.name,
            albumImageUrl |-> track.album.images[1].url,
            songUrl |-> track.external_urls.spotify])

\* the dict literal track_info, its entries evaluated in source order
TrackInfo(track, playing) ==
  IF ~Has(track, "name") THEN KeyError("name")
  ELSE IF ~Has(track, "artists") THEN KeyError("artists")
  ELSE IF \E i \in DOMAIN track.artists : ~Has(track.artists[i], "name")
    THEN KeyError("name")
  ELSE IF ~Has(track, "album") THEN KeyError("album")
  ELSE IF ~Has(track.album, "name") THEN KeyError("name")
  ELSE IF ~Has(track.album, "images") THEN KeyError("images")
  ELSE IF Len(track.album.images) < 1 THEN IndexError
  ELSE IF ~Has(track.album.images[1], "url") THEN KeyError("url")
  ELSE IF ~Has(track, "external_urls") THEN KeyError("external_urls")
  ELSE IF ~Has(track.external_urls, "spotify") THEN KeyError("spotify")
  ELSE Val([isPlaying |-> playing,
            hasData |-> TRUE,
            title |-> track.name,
            artist |-> Join([i \in DOMAIN track.artists |-> track.artists[i].name]),
            album |-> track.album.name,
            albumImageUrl |-> track.album.images[1].url,
            songUrl |-> track.external_urls.spotify])

\* NeedsFallback that takes every status other than 200 for "nothing is playing"
NeedsFallbackOnAnyNon200(resp) == resp.status # 200

\* if response.status_code == 204
NeedsFallback(resp) == resp.status = 204

\* NoItems that tests only for the key: "items" not in recent_data
NoItemsKeyOnly(data) == ~Has(data, "items")

\* not recent_data.get("items")
NoItems(data) == ~Has(data, "items") \/ data.items = <<>>

\* not data or not data.get("is_playing") or not data.get("item")
NothingPlaying(data) ==
  \/ Falsy(data)
  \/ ~Has(data, "is_playing") \/ ~data.is_playing
  \/ ~Has(data, "item") \/ Falsy(data.item)

\* the code after the currently-playing call when the status is not 204
CurrentlyPlaying(resp) ==
  IF IsExc(RaiseForStatus(resp)) THEN RaiseForStatus(resp)
  ELSE IF NothingPlaying(resp.body) THEN Val(NoData)
  ELSE TrackInfo(resp.body.item, TRUE)

\* the code after the recently-played call
RecentlyPlayed(resp) ==
  IF IsExc(resp) THEN resp
  ELSE IF IsExc(RaiseForStatus(resp)) THEN RaiseForStatus(resp)
  ELSE IF NoItems(resp.body) THEN Val(NoData)
  ELSE IF Len(resp.body.items) < 1 THEN IndexError
  ELSE IF ~Has(resp.body.items[1], "track") THEN KeyError("track")
  ELSE TrackInfo(resp.body.items[1].track, FALSE)

(* ---------------------------------------------------------------------- *)
(* get_top_tracks and get_top_artists                                      *)
(* ---------------------------------------------------------------------- *)
\* EmptyList as a list that lives on between invocations: the list another
\* invocation has already filled
SharedList ==
  IF \E o \in Workers : pc[o] = "done" /\ Has(result[o].body, "tracks")
  THEN result[CHOOSE o \in Workers :
                pc[o] = "done" /\ Has(result[o].body, "tracks")].body.tracks
  ELSE <<>>

\* tracks = [] / artists = []: a list created afresh by every invocation
EmptyList == <<>>

\* data.get("items", [])
ItemsOf(data) == IF Has(data, "items") THEN data.items ELSE <<>>

\* the dict literal track of get_top_tracks, its entries evaluated in source order
TrackSummary(item) ==
  IF ~Has(item, "name") THEN KeyError("name")
  ELSE IF ~Has(item, "artists") THEN KeyError("artists")
  ELSE IF \E i \in DOMAIN item.artists : ~Has(item.artists[i], "name")
    THEN KeyError("name")
  ELSE IF ~Has(item, "album") THEN KeyError("album")
  ELSE IF ~Has(item.album, "images") THEN KeyError("images")
  ELSE IF Len(item.album.images) < 3 THEN IndexError
  ELSE IF ~Has(item.album.images[3], "url") THEN KeyError("url")
  ELSE IF ~Has(item, "external_urls") THEN KeyError("external_urls")
  ELSE IF ~Has(item.external_urls, "spotify") THEN KeyError("spotify")
  ELSE Val([title |-> item.name,
            artist |-> Join([i \in DOMAIN item.artists |-> item.artists[i].name]),
            albumImageUrl |-> item.album.images[3].url,
            songUrl |-> item.external_urls.spotify])

\* ArtistImageUrl without the preference for the second image
ArtistImageUrlFirstOnly(images) ==
  IF images # <<>> THEN images[1].url ELSE PLACEHOLDER_URL

\* the conditional expression that chooses an artist's image
ArtistImageUrl(images) ==
  IF Len(images) > 1 THEN images[2].url
  ELSE IF images # <<>> THEN images[1].url
  ELSE PLACEHOLDER_URL

\* the dict literal artist of get_top_artists
ArtistSummary(item) ==
  IF ~Has(item, "name") THEN KeyError("name")
  ELSE IF ~Has(item, "images") THEN KeyError("images")
  ELSE IF ~Has(item, "external_urls") THEN KeyError("external_urls")
  ELSE IF ~Has(item.external_urls, "spotify") THEN KeyError("spotify")
  ELSE Val([name |-> item.name,
            imageUrl |-> ArtistImageUrl(item.images),
            artistUrl |-> item.external_urls.spotify])

\* for item in ...: tracks.append(track)
RECURSIVE MapTracks(_, _)
MapTracks(todo, tracks) ==
  IF todo = <<>> THEN Val(tracks)
  ELSE IF IsExc(TrackSummary(Head(todo))) THEN TrackSummary(Head(todo))
  ELSE MapTracks(Tail(todo), Append(tracks, TrackSummary(Head(todo)).val))

\* for item in ...: artists.append(artist)
RECURSIVE MapArtists(_, _)
MapArtists(todo, artists) ==
  IF todo = <<>> THEN Val(artists)
  ELSE IF IsExc(ArtistSummary(Head(todo))) THEN ArtistSummary(Head(todo))
  ELSE MapArtists(Tail(todo), Append(artists, ArtistSummary(Head(todo)).val))

\* the code after the top-tracks call
TopTracks(resp) ==
  IF IsExc(resp) THEN resp
  ELSE IF IsExc(RaiseForStatus(resp)) THEN RaiseForStatus(resp)
  ELSE IF IsExc(MapTracks(ItemsOf(resp.body), EmptyList))
    THEN MapTracks(ItemsOf(resp.body), EmptyList)
  ELSE Val([tracks |-> MapTracks(ItemsOf(resp.body), EmptyList).val])

\* the code after the top-artists call
TopArtists(resp) ==
  IF IsExc(resp) THEN resp
  ELSE IF IsExc(RaiseForStatus(resp)) THEN RaiseForStatus(resp)
  ELSE IF IsExc(MapArtists(ItemsOf(resp.body), EmptyList))
    THEN MapArtists(ItemsOf(resp.body), EmptyList)
  ELSE Val([artists |-> MapArtists(ItemsOf(resp.body), EmptyList).val])

(* ---------------------------------------------------------------------- *)
(* The game-lookup handler (GET /api/steam-game?appid=<id>)                *)
(* ---------------------------------------------------------------------- *)
AppIds == {"10", "20"}

Game(id) ==
  [name |-> "game " \o id,
   short_description |-> "about game " \o id,
   header_image |-> "header" \o id \o ".jpg",
   steam_appid |-> id]

SteamResponses(id) ==
  {ConnectionFailure,
   [status |-> 200, body |-> EmptyObj],
   [status |-> 200, body |-> (id :> [success |-> FALSE])]}
  \cup {[status |-> 200, body |-> (a :> [success |-> TRUE, data |-> Game(a)])] :
          a \in AppIds}

HttpError(status, detail) == [status |-> status, body |-> [detail |-> detail]]

SteamUrl(id) == "https://store.steampowered.com/app/" \o id

\* SteamGame that does not tell a network failure from a missing game
SteamGameNoNetworkCase(id, resp) ==
  IF IsExc(resp) \/ ~Has(resp.body, id) \/ ~resp.body[id].success
  THEN HttpError(404, "Game not found")
  ELSE HttpOK([name |-> resp.body[id].data.name,
               description |-> resp.body[id].data.short_description,
               imageUrl |-> resp.body[id].data.header_image,
               steamUrl |-> SteamUrl(id)])

SteamGame(id, resp) ==
  IF IsExc(resp)
  THEN HttpError(503, "Could not connect to Steam API: " \o resp.msg)
  ELSE IF ~Has(resp.body, id) \/ ~resp.body[id].success
    THEN HttpError(404, "Game not found")
  ELSE HttpOK([name |-> resp.body[id].data.name,
               description |-> resp.body[id].data.short_description,
               imageUrl |-> resp.body[id].data.header_image,
               steamUrl |-> SteamUrl(id)])

(* ---------------------------------------------------------------------- *)
(* State machine                                                           *)
(* ---------------------------------------------------------------------- *)
NoResponse == [status |-> 0, body |-> EmptyObj]

Init ==
  /\ pc = [w \in Workers |-> "idle"]
  /\ handler = [w \in Workers |-> "none"]
  /\ appid = [w \in Workers |-> ""]
  /\ token = [w \in Workers |-> ""]
  /\ calls = [w \in Workers |-> <<>>]
  /\ received = [w \in Workers |-> <<>>]
  /\ result = [w \in Workers |-> NoResponse]

Call(w, endpoint, auth, resp) ==
  /\ calls' = [calls EXCEPT ![w] = Append(@, [endpoint |-> endpoint, auth |-> auth])]
  /\ received' = [received EXCEPT ![w] = Append(@, resp)]

Return(w, response) ==
  /\ pc' = [pc EXCEPT ![w] = "done"]
  /\ result' = [result EXCEPT ![w] = response]

\* the runtime hands a request for one of the Spotify routes to a free worker
StartSpotify(w) ==
  /\ pc[w] \in {"idle", "done"}
  /\ \E h \in SpotifyHandlers : handler' = [handler EXCEPT ![w] = h]
  /\ pc' = [pc EXCEPT ![w] = "token"]
  /\ appid' = [appid EXCEPT ![w] = ""]
  /\ token' = [token EXCEPT ![w] = ""]
  /\ calls' = [calls EXCEPT ![w] = <<>>]
  /\ received' = [received EXCEPT ![w] = <<>>]
  /\ result' = [result EXCEPT ![w] = NoResponse]

\* access_token = get_access_token()
GetAccessToken(w) ==
  /\ pc[w] = "token"
  /\ \E resp \in TokenResponses :
       /\ Call(w, TOKEN_ENDPOINT, "Basic", resp)
       /\ IF IsExc(AccessToken(resp))
          THEN Return(w, Handle(AccessToken(resp))) /\ UNCHANGED token
          ELSE /\ token' = [token EXCEPT ![w] = AccessToken(resp).val]
               /\ pc' = [pc EXCEPT ![w] = "data"]
               /\ UNCHANGED result
  /\ UNCHANGED <<handler, appid>>

\* requests.get(NOW_PLAYING_ENDPOINT) and the code that follows it
FetchNowPlaying(w) ==
  /\ pc[w] = "data" /\ handler[w] = "get_now_playing"
  /\ \E resp \in NowPlayingResponses :
       /\ Call(w, NOW_PLAYING_ENDPOINT, Bearer(w), resp)
       /\ IF IsExc(resp) THEN Return(w, Handle(resp))
          ELSE IF NeedsFallback(resp)
            THEN pc' = [pc EXCEPT ![w] = "recent"] /\ UNCHANGED result
          ELSE Return(w, Handle(CurrentlyPlaying(resp)))
  /\ UNCHANGED <<handler, appid, token>>

\* requests.get(RECENTLY_PLAYED_ENDPOINT) and the code that follows it
FetchRecentlyPlayed(w) ==
  /\ pc[w] = "recent"
  /\ \E resp \in RecentlyPlayedResponses :
       /\ Call(w, RECENTLY_PLAYED_ENDPOINT, Bearer(w), resp)
       /\ Return(w, Handle(RecentlyPlayed(resp)))
  /\ UNCHANGED <<handler, appid, token>>

\* requests.get(TOP_TRACKS_ENDPOINT) and the code that follows it
FetchTopTracks(w) ==
  /\ pc[w] = "data" /\ handler[w] = "get_top_tracks"
  /\ \E resp \in TopTracksResponses :
       /\ Call(w, TOP_TRACKS_ENDPOINT, Bearer(w), resp)
       /\ Return(w, Handle(TopTracks(resp)))
  /\ UNCHANGED <<handler, appid, token>>

\* requests.get(TOP_ARTISTS_ENDPOINT) and the code that follows it
FetchTopArtists(w) ==
  /\ pc[w] = "data" /\ handler[w] = "get_top_artists"
  /\ \E resp \in TopArtistsResponses :
       /\ Call(w, TOP_ARTISTS_ENDPOINT, Bearer(w), resp)
       /\ Return(w, Handle(TopArtists(resp)))
  /\ UNCHANGED <<handler, appid, token>>

\* the runtime hands a game-lookup request, with its query parameter, to a free worker
StartSteam(w) ==
  /\ pc[w] \in {"idle", "done"}
  /\ \E id \in AppIds : appid' = [appid EXCEPT ![w] = id]
  /\ handler' = [handler EXCEPT ![w] = "get_steam_game"]
  /\ pc' = [pc EXCEPT ![w] = "fetch"]
  /\ token' = [token EXCEPT ![w] = ""]
  /\ calls' = [calls EXCEPT ![w] = <<>>]
  /\ received' = [received EXCEPT ![w] = <<>>]
  /\ result' = [result EXCEPT ![w] = NoResponse]

\* the unauthenticated call to the game-details endpoint and the code that follows it
FetchSteamGame(w) ==
  /\ pc[w] = "fetch"
  /\ \E resp \in SteamResponses(appid[w]) :
       /\ Call(w, STEAM_ENDPOINT, "none", resp)
       /\ Return(w, SteamGame(appid[w], resp))
  /\ UNCHANGED <<handler, appid, token>>

Next ==
  \E w \in Workers :
    \/ StartSpotify(w)
    \/ GetAccessToken(w)
    \/ FetchNowPlaying(w)
    \/ FetchRecentlyPlayed(w)
    \/ FetchTopTracks(w)
    \/ FetchTopArtists(w)
    \/ StartSteam(w)
    \/ FetchSteamGame(w)

Spec == Init /\ [][Next]_vars

TypeOK ==
  /\ pc \in [Workers -> {"idle", "token", "data", "recent", "fetch", "done"}]
  /\ \A w \in Workers : Len(calls[w]) = Len(received[w])

(* ---------------------------------------------------------------------- *)
(* Properties                                                              *)
(* ---------------------------------------------------------------------- *)
Done(w, h) == pc[w] = "done" /\ handler[w] = h

\* the call's response arrived and its status is not an error status
Succeeded(r) == ~IsExc(r) /\ r.status < 400

NamesOf(track) == [i \in DOMAIN track.artists |-> track.artists[i].name]

\* the request reached the recently-played call and that call succeeded
FellBack(w) ==
  /\ Done(w, "get_now_playing")
  /\ Len(received[w]) = 3
  /\ Succeeded(received[w][1])
  /\ Succeeded(received[w][2]) /\ received[w][2].status = 204
  /\ Succeeded(received[w][3])

\* C1: when the token request succeeds, the currently-playing call returns 204
\* and the recently-played call succeeds with a missing or empty items list,
\* get_now_playing answers exactly {isPlaying: false, hasData: false}.
C1_NoHistoryGivesNoData ==
  \A w \in Workers :
    (/\ FellBack(w)
     /\ \/ ~Has(received[w][3].body, "items")
        \/ received[w][3].body.items = <<>>)
    => result[w] = [status |-> 200,
                    body |-> [isPlaying |-> FALSE, hasData |-> FALSE]]

C1_Witness ==
  \E w \in Workers :
    /\ FellBack(w)
    /\ Has(received[w][3].body, "items")
    /\ received[w][3].body.items = <<>>
    /\ result[w].body = [isPlaying |-> FALSE, hasData |-> FALSE]

\* C2: when the currently-playing call returns 204 and the recently-played
\* call returns at least one item, get_now_playing answers isPlaying=false,
\* hasData=true and the title, the artist names joined by ", ", the album, the
\* first album image and the song url of the first item's track.
C2_RecentTrackIsShown ==
  \A w \in Workers :
    (/\ FellBack(w)
     /\ Has(received[w][3].body, "items")
     /\ received[w][3].body.items # <<>>)
    => LET t == received[w][3].body.items[1].track
           b == result[w].body
       IN /\ result[w].status = 200
          /\ Has(b, "hasData") /\ b.hasData = TRUE
          /\ Has(b, "isPlaying") /\ b.isPlaying = FALSE
          /\ b.title = t.name
          /\ b.artist = Join(NamesOf(t))
          /\ b.album = t.album.name
          /\ t.album.images # <<>> => b.albumImageUrl = t.album.images[1].url
          /\ b.songUrl = t.external_urls.spotify

\* the currently-playing call succeeded with a status other than 204
AnsweredDirectly(w) ==
  /\ Done(w, "get_now_playing")
  /\ Len(received[w]) = 2
  /\ Succeeded(received[w][2]) /\ received[w][2].status # 204

\* C3: for every successful non-204 currently-playing response the answer is
\* exactly {isPlaying: false, hasData: false} if the body is empty, is_playing
\* is false or item is absent, and otherwise has isPlaying=true, hasData=true
\* and the fields of item, the artist names joined by ", " in upstream order.
C3_CurrentTrackIsShown ==
  \A w \in Workers :
    AnsweredDirectly(w)
    => LET d == received[w][2].body
           b == result[w].body
       IN IF \/ d = EmptyObj \/ d = Null
             \/ ~Has(d, "is_playing") \/ ~d.is_playing
             \/ ~Has(d, "item") \/ d.item = Null
          THEN result[w] = [status |-> 200,
                            body |-> [isPlaying |-> FALSE, hasData |-> FALSE]]
          ELSE /\ result[w].status = 200
               /\ Has(b, "hasData") /\ b.hasData = TRUE
               /\ Has(b, "isPlaying") /\ b.isPlaying = TRUE
               /\ b.title = d.item.name
               /\ b.artist = Join(NamesOf(d.item))
               /\ NamesOf(d.item) = <<"A", "B">> => b.artist = "A, B"
               /\ b.album = d.item.album.name
               /\ d.item.album.images # <<>>
                    => b.albumImageUrl = d.item.album.images[1].url
               /\ b.songUrl = d.item.external_urls.spotify

\* C4: for every track of a successful top-tracks response whose album has at
\* least one image, albumImageUrl is the image at index 2 when the album has
\* that many images and the image at index 0 otherwise, and the answer is
\* {tracks: [...]}, not an error.
C4_TrackImageFallsBack ==
  \A w \in Workers :
    (/\ Done(w, "get_top_tracks")
     /\ Len(received[w]) = 2
     /\ Succeeded(received[w][2])
     /\ Has(received[w][2].body, "items")
     /\ \A i \in DOMAIN received[w][2].body.items :
          received[w][2].body.items[i].album.images # <<>>)
    => LET its == received[w][2].body.items
           b == result[w].body
       IN /\ DOMAIN b = {"tracks"}
          /\ Len(b.tracks) = Len(its)
          /\ \A i \in DOMAIN its :
               b.tracks[i].albumImageUrl =
                 IF Len(its[i].album.images) >= 3
                 THEN its[i].album.images[3].url
                 ELSE its[i].album.images[1].url

\* C5: for every item of a successful top-artists response, imageUrl is the
\* second image's url when the item has two or more images, the first image's
\* url when it has exactly one and the placeholder url when it has none; an
\* item without images never produces an error.
C5_ArtistImageFallsBack ==
  \A w \in Workers :
    (/\ Done(w, "get_top_artists")
     /\ Len(received[w]) = 2
     /\ Succeeded(received[w][2])
     /\ Has(received[w][2].body, "items"))
    => LET its == received[w][2].body.items
           b == result[w].body
       IN /\ result[w].status = 200
          /\ DOMAIN b = {"artists"}
          /\ Len(b.artists) = Len(its)
          /\ \A i \in DOMAIN its :
               /\ Len(its[i].images) >= 2
                    => b.artists[i].imageUrl = its[i].images[2].url
               /\ Len(its[i].images) = 1
                    => b.artists[i].imageUrl = its[i].images[1].url
               /\ Len(its[i].images) = 0
                    => b.artists[i].imageUrl =
                         "https://placehold.co/64x64/0b0c1a/ffffff?text=?"

C5_Witness ==
  \E w \in Workers :
    /\ Done(w, "get_top_artists")
    /\ Len(received[w]) = 2
    /\ Succeeded(received[w][2])
    /\ Has(received[w][2].body, "items")
    /\ \E i, j \in DOMAIN received[w][2].body.items :
         /\ Len(received[w][2].body.items[i].images) = 0
         /\ Len(received[w][2].body.items[j].images) >= 2
    /\ Has(result[w].body, "artists")

FailedCall(r) == IsExc(r) \/ r.status >= 400

\* the track get_now_playing maps to its answer has an empty album image list
ShownTrackHasNoImage(w) ==
  \/ /\ FellBack(w)
     /\ Has(received[w][3].body, "items")
     /\ received[w][3].body.items # <<>>
     /\ received[w][3].body.items[1].track.album.images = <<>>
  \/ /\ AnsweredDirectly(w)
     /\ Has(received[w][2].body, "is_playing") /\ received[w][2].body.is_playing
     /\ Has(received[w][2].body, "item") /\ received[w][2].body.item # Null
     /\ received[w][2].body.item.album.images = <<>>

\* a successful response lacks a field or a list element the handler reads
MissingField(w) ==
  \/ /\ Len(received[w]) >= 1
     /\ Succeeded(received[w][1])
     /\ ~Has(received[w][1].body, "access_token")
  \/ /\ handler[w] = "get_top_tracks"
     /\ Len(received[w]) = 2
     /\ Succeeded(received[w][2])
     /\ Has(received[w][2].body, "items")
     /\ \E i \in DOMAIN received[w][2].body.items :
          Len(received[w][2].body.items[i].album.images) < 3
  \/ ShownTrackHasNoImage(w)

\* C6: in get_now_playing, get_top_tracks and get_top_artists every failure
\* during the request (a failed call, an error status, a missing field) ends
\* in a normal return of a body with an error field; no exception leaves the
\* handler.
C6_FailuresBecomeErrorBodies ==
  \A w \in Workers :
    (pc[w] = "done" /\ handler[w] \in SpotifyHandlers)
    => /\ result[w].status = 200
       /\ ((\E i \in DOMAIN received[w] : FailedCall(received[w][i]))
           \/ MissingField(w))
          => Has(result[w].body, "error")

C6_Witness ==
  \E w \in Workers :
    /\ pc[w] = "done" /\ handler[w] \in SpotifyHandlers
    /\ \A i \in DOMAIN received[w] : ~FailedCall(received[w][i])
    /\ MissingField(w)
    /\ Has(result[w].body, "error")

C8_SameResponsesSameOutput ==
  \A w1, w2 \in Workers :
    (/\ pc[w1] = "done" /\ pc[w2] = "done"
     /\ handler[w1] = handler[w2]
     /\ appid[w1] = appid[w2]
     /\ received[w1] = received[w2])
    => result[w1] = result[w2]

C8_Witness ==
  \E w1, w2 \in Workers :
    /\ w1 # w2
    /\ Done(w1, "get_top_tracks") /\ Done(w2, "get_top_tracks")
    /\ received[w1] = received[w2]
    /\ Has(result[w1].body, "tracks") /\ Len(result[w1].body.tracks) = MaxItems
    /\ result[w1] = result[w2]

Endpoints(w) == [i \in DOMAIN calls[w] |-> calls[w][i].endpoint]

IsPrefix(s, t) == Len(s) <= Len(t) /\ \A i \in DOMAIN s : s[i] = t[i]

DataEndpoint(h) ==
  CASE h = "get_now_playing" -> "https://api.spotify.com/v1/me/player/currently-playing"
    [] h = "get_top_tracks" -> "https://api.spotify.com/v1/me/top/tracks"
    [] h = "get_top_artists" -> "https://api.spotify.com/v1/me/top/artists"

\* C9: in every invocation of a Spotify handler the outbound calls are a prefix
\* of [token, data, recently-played]: the token is requested first and once,
\* the bearer token sent is the one this invocation received, no endpoint is
\* called twice, the recently-played call is made only by get_now_playing after
\* a 204, and no call follows a failed call.
C9_CallsFormAPrefix ==
  \A w \in Workers :
    handler[w] \in SpotifyHandlers
    => /\ IsPrefix(Endpoints(w),
                   <<"https://accounts.spotify.com/api/token",
                     DataEndpoint(handler[w]),
                     "https://api.spotify.com/v1/me/player/recently-played">>)
       /\ Len(calls[w]) = Len(received[w])
       /\ pc[w] \in {"data", "recent", "done"} => Len(calls[w]) >= 1
       /\ \A i \in DOMAIN calls[w] :
            /\ i < Len(calls[w]) => Succeeded(received[w][i])
            /\ i > 1 => /\ Has(received[w][1].body, "access_token")
                        /\ calls[w][i].auth =
                             "Bearer " \o received[w][1].body.access_token
       /\ Len(calls[w]) = 3
            => handler[w] = "get_now_playing" /\ received[w][2].status = 204

C9_Witness ==
  \E w1, w2 \in Workers :
    /\ Done(w1, "get_now_playing") /\ Len(calls[w1]) = 3
    /\ Done(w2, "get_now_playing") /\ Len(calls[w2]) = 2
    /\ FailedCall(received[w2][2])

\* C10: every response of get_now_playing is an error body whose only key is
\* error, or exactly {isPlaying: false, hasData: false}, or a body with
\* hasData=true and all of title, artist, album, albumImageUrl and songUrl; a
\* track with an empty album image list yields the error body.
C10_ThreeShapes ==
  \A w \in Workers :
    Done(w, "get_now_playing")
    => /\ \/ DOMAIN result[w].body = {"error"}
          \/ result[w].body = [isPlaying |-> FALSE, hasData |-> FALSE]
          \/ /\ DOMAIN result[w].body =
                  {"isPlaying", "hasData", "title", "artist", "album",
                   "albumImageUrl", "songUrl"}
             /\ result[w].body.hasData = TRUE
       /\ ShownTrackHasNoImage(w) => DOMAIN result[w].body = {"error"}

C10_Witness ==
  \E w1, w2 \in Workers :
    /\ Done(w1, "get_now_playing") /\ ShownTrackHasNoImage(w1)
    /\ DOMAIN result[w1].body = {"error"}
    /\ Done(w2, "get_now_playing")
    /\ Has(result[w2].body, "isPlaying") /\ result[w2].body.isPlaying = TRUE

====
